---------------------------- MODULE Spec2Model ----------------------------
(***************************************************************************)
(* Stylo.ai: the three request pipelines of the repository                 *)
(*   chat             src/app.py             (/chat)                       *)
(*   generate_outfit  src/backend/api.py     (/api/generate-outfit)        *)
(*   main             src/backend/styloAI.py (command line)                *)
(* and the helpers they call.  A text is a sequence of tokens; the token   *)
(* " " is a blank, so that lower(), replace(' ', '_'), substring tests and *)
(* string concatenation are computed as the code computes them.            *)
(***************************************************************************)
EXTENDS Integers, Sequences, FiniteSets, TLC

VARIABLES
    req,               \* per request: entry point and inputs
    pc,                \* per request: position in its handler
    answer,            \* chat: the narrative sections appended so far
    search_query,      \* the query handed to the search stage
    products,          \* the product list of the request
    fallback_used,     \* chat: whether fetch_specific_fallback_products ran
    timestamp,         \* generate_outfit: the formatted clock value
    attempts,          \* one record per item the loop has attempted
    generated_images,  \* artifact names of the succeeded items
    response,          \* what the caller receives
    calls,             \* external/stage calls issued, in order
    seen,              \* what the refinement and search calls returned
    call,              \* a helper called on its own: arguments and return value
    clock,             \* wall clock, in seconds
    written            \* every write into an output directory

vars == << req, pc, answer, search_query, products, fallback_used, timestamp,
           attempts, generated_images, response, calls, seen, call, clock,
           written >>

-----------------------------------------------------------------------------
(* Bounds of the exploration *)

MaxPrefix == 2     \* free listings at the head of a raw search result
MaxGood   == 4     \* eligible listings that may follow them
MaxClock  == 1     \* seconds the clock may advance
MaxCap    == 2     \* largest max_results a caller passes

-----------------------------------------------------------------------------
(* Program constants *)

FallbackThreshold == 3   \* app.py:59
ChatLimit         == 5   \* app.py:81, app.py:109
GenerateDefault   == 3   \* styloAI.py:264

-----------------------------------------------------------------------------
(* Texts *)

MISSING == << "<absent>" >>      \* a key the dict does not hold / None
NA      == << "N/A" >>
Empty   == << >>

\* str.lower(), token by token
LowerTok(t) ==
    CASE t = "Dark"   -> "dark"
      [] t = "Trench" -> "trench"
      [] t = "Blue"   -> "blue"
      [] OTHER        -> t

Lower(s) == [i \in 1..Len(s) |-> LowerTok(s[i])]

\* str.replace(' ', '_')
Slug(s) == [i \in 1..Len(s) |-> IF s[i] = " " THEN "_" ELSE s[i]]

\* sub in s
Contains(s, sub) ==
    \E k \in 0..(Len(s) - Len(sub)) :
        \A i \in 1..Len(sub) : s[k + i] = sub[i]

\* s.startswith('http')
StartsWithHttp(s) == Len(s) > 0 /\ s[1] = "http"

\* dict.get(key, default)
Get(v, default) == IF v = MISSING THEN default ELSE v

\* truth value of dict.get(key)
Truthy(v) == v # MISSING /\ v # Empty

\* s[:n] for n >= 0
Take(s, n) == SubSeq(s, 1, IF n < Len(s) THEN n ELSE Len(s))

\* str(i) for a small i
IntStr(i) == << "0", "1", "2", "3", "4", "5", "6", "7", "8", "9" >>[i + 1]

\* datetime.now().strftime("%Y%m%d_%H%M%S"): one text per second
Strftime(t) == "T" \o IntStr(t)

-----------------------------------------------------------------------------
(* The shopping-search service: raw listings *)

Url(x) == << "http", x >>

Listing(src, thumb, lnk) ==
    [source |-> src, thumbnail |-> thumb, link |-> lnk, product_link |-> lnk]

ZaraListing    == Listing(<< "Zara" >>, Url("z.jpg"), Url("z"))
HMListing      == Listing(<< "H", " ", "M" >>, Url("hm.jpg"), Url("hm"))
H_MListing     == Listing(<< "H", "_", "M" >>, Url("h_m.jpg"), Url("h_m"))
NoThumbListing == Listing(<< "Asos" >>, MISSING, Url("a"))
EmptyListing   == Listing(MISSING, Empty, Empty)

ListingKinds == { ZaraListing, HMListing, NoThumbListing, EmptyListing }

SeqsUpTo(S, n) == UNION { [1..k -> S] : k \in 0..n }

Repeat(x, k) == [i \in 1..k |-> x]

\* what search.get_dict().get("shopping_results", []) may hold
RawResults ==
    { pre \o Repeat(ZaraListing, k) :
        pre \in SeqsUpTo(ListingKinds, MaxPrefix), k \in 0..MaxGood }

\* the outcomes of one search call: an exception, or a list of raw listings
SearchOutcomes ==
    { [raised |-> TRUE, results |-> << >>] }
        \cup { [raised |-> FALSE, results |-> r] : r \in RawResults }

-----------------------------------------------------------------------------
(* app.py: fetch_google_shopping_products, fetch_specific_fallback_products *)

ChatProduct(result) ==
    [ name      |-> << "title" >>,
      image_url |-> Get(result.thumbnail, Empty),
      link      |-> Get(result.link, Empty),
      source    |-> Get(result.source, << "Google", " ", "Shopping" >>) ]

Eligible(result) == Truthy(result.link) /\ Truthy(result.thumbnail)

\* [f(x) for x in s if p(x)], in order
RECURSIVE ChatComprehension(_)
ChatComprehension(s) ==
    IF s = << >> THEN << >>
    ELSE (IF Eligible(Head(s)) THEN << ChatProduct(Head(s)) >> ELSE << >>)
             \o ChatComprehension(Tail(s))

fetch_google_shopping_products(outcome, limit) ==
    IF outcome.raised THEN << >>
    ELSE ChatComprehension(Take(outcome.results, limit))

FallbackEntry(n, src) ==
    [ name      |-> << n >>,
      image_url |-> Url(n \o ".jpg"),
      link      |-> Url(n),
      source    |-> src ]

FallbackTable ==
    << FallbackEntry("f1", << "Nordstrom" >>),
       FallbackEntry("f2", << "ASOS" >>),
       FallbackEntry("f3", << "Zara" >>),
       FallbackEntry("f4", << "Macy's" >>),
       FallbackEntry("f5", << "ASOS", " ", "Marketplace" >>) >>

fetch_specific_fallback_products(user_message, limit) ==
    LET fallback ==
            IF Contains(Lower(user_message), << "trench", " ", "coat" >>)
               /\ Contains(Lower(user_message), << "dark", " ", "blue" >>)
            THEN FallbackTable
            ELSE << >>
    IN  Take(fallback, limit)

-----------------------------------------------------------------------------
(* styloAI.py: search_clothing *)

OutfitProduct(item) ==
    [ brand        |-> Get(item.source, << "Unknown" >>),
      image_url    |-> Get(item.thumbnail, NA),
      product_link |-> Get(item.product_link, NA) ]

search_clothing(outcome, max_results) ==
    IF outcome.raised THEN << >>
    ELSE LET shopping_results == Take(outcome.results, max_results)
         IN  [i \in 1..Len(shopping_results) |-> OutfitProduct(shopping_results[i])]

-----------------------------------------------------------------------------
(* styloAI.py: generate_outfit_visualization *)

\* One part of response.candidates[0].content.parts.  text: part.text is not
\* None.  inline: "none" (inline_data is None), "image" (decodable bytes, the
\* save succeeds), "corrupt" (Image.open raises), "unwritable" (save raises).
Part(t, d) == [text |-> t, inline |-> d]

TextPart       == Part(TRUE, "none")
ImagePart      == Part(FALSE, "image")
CaptionedImage == Part(TRUE, "image")
CorruptPart    == Part(FALSE, "corrupt")
UnwritablePart == Part(FALSE, "unwritable")
BlankPart      == Part(FALSE, "none")

\* the part lists the service is taken to answer with
PartLists ==
    { << >>, << TextPart >>, << ImagePart >>, << CaptionedImage >>,
      << CorruptPart >>, << UnwritablePart >>, << BlankPart >>,
      << TextPart, ImagePart >>, << ImagePart, TextPart >>,
      << ImagePart, CorruptPart >>, << TextPart, TextPart >>,
      << TextPart, CorruptPart >> }

\* What the world does during one call: whether the reference image opens,
\* whether the garment image is fetched and decoded, and what the synthesis
\* service answers ("exception", "absent", "nocandidates" or "parts").
Env(r, g, s, ps) == [ref |-> r, garment |-> g, service |-> s, parts |-> ps]

SynthEnvs ==
    { Env(FALSE, TRUE, "exception", << >>),
      Env(TRUE, FALSE, "exception", << >>),
      Env(TRUE, TRUE, "exception", << >>),
      Env(TRUE, TRUE, "absent", << >>),
      Env(TRUE, TRUE, "nocandidates", << >>) }
        \cup { Env(TRUE, TRUE, "parts", ps) : ps \in PartLists }

\* ScanParts with `if` for `elif` at line 157: the inline data of a part is
\* read even when the part carries text
RECURSIVE ScanParts_IfForElif(_, _)
ScanParts_IfForElif(parts, st) ==
    IF parts = << >> \/ st.raised THEN st
    ELSE LET part == Head(parts)
             read == IF part.text THEN [st EXCEPT !.texts = @ + 1] ELSE st
             next ==
                 IF part.inline = "none" THEN read
                 ELSE IF part.inline = "image"
                      THEN [read EXCEPT !.image_saved = TRUE, !.wrote = TRUE]
                      ELSE [read EXCEPT !.raised = TRUE]
         IN  ScanParts_IfForElif(Tail(parts), next)

\* the loop over the parts (lines 154-161); st carries the locals
RECURSIVE ScanParts(_, _)
ScanParts(parts, st) ==
    IF parts = << >> \/ st.raised THEN st
    ELSE LET part == Head(parts)
             next ==
                 IF part.text
                 THEN [st EXCEPT !.texts = @ + 1]
                 ELSE IF part.inline = "none" THEN st
                 ELSE IF part.inline = "image"
                      THEN [st EXCEPT !.image_saved = TRUE, !.wrote = TRUE]
                      ELSE [st EXCEPT !.raised = TRUE]
         IN  ScanParts(Tail(parts), next)

Result(ok, msg, w, hasText, n) ==
    [success |-> ok, message |-> msg, wrote |-> w,
     has_text_response |-> hasText, texts |-> n]

\* lines 108-114: download the garment image, or open it as a local file
GarmentLoaded(clothing_image_url, env) ==
    IF StartsWithHttp(clothing_image_url)
    THEN env.garment
    ELSE clothing_image_url # Empty /\ env.garment

generate_outfit_visualization(clothing_image_url, env) ==
    IF ~env.ref
    THEN Result(FALSE, "Error", FALSE, FALSE, 0)
    ELSE IF ~GarmentLoaded(clothing_image_url, env)
    THEN Result(FALSE, "Error", FALSE, FALSE, 0)
    ELSE IF env.service = "exception"
    THEN Result(FALSE, "Error", FALSE, FALSE, 0)
    ELSE IF env.service \in {"absent", "nocandidates"}
    THEN Result(FALSE, "No response", FALSE, TRUE, 0)
    ELSE LET st == ScanParts(env.parts,
                       [image_saved |-> FALSE, wrote |-> FALSE,
                        texts |-> 0, raised |-> FALSE])
         IN  IF st.raised
             THEN Result(FALSE, "Error", st.wrote, FALSE, 0)
             ELSE IF st.image_saved
             THEN Result(TRUE, "Image saved", TRUE, TRUE, st.texts)
             ELSE Result(FALSE, "No image data returned", FALSE, TRUE, st.texts)

-----------------------------------------------------------------------------
(* The text-completion service and the query refiner *)

RefinedText == << "men's", " ", "query" >>

\* the outcomes of one completion call
RefineOutcomes ==
    { [kind |-> "text", text |-> RefinedText],
      [kind |-> "empty", text |-> Empty],
      [kind |-> "exception", text |-> Empty] }

\* styloAI.parse_natural_language_query, imported by api.py
parse_natural_language_query(prompt, outcome) ==
    [ search_query  |-> IF outcome.kind = "text" THEN outcome.text ELSE prompt,
      clothing_type |-> MISSING,
      style         |-> MISSING,
      gender        |-> MISSING ]

-----------------------------------------------------------------------------
(* Requests *)

MainDefault == 5    \* styloAI.py:200

BlueShirt == << "blue", " ", "shirt" >>

ChatPrompts ==
    { Empty, BlueShirt,
      << "Dark", " ", "blue", " ", "Trench", " ", "coat" >>,
      << "trench", " ", "coat" >> }

OutfitPrompts == { Empty, BlueShirt }

Request(e, g, p, m, a) ==
    [entry |-> e, given |-> g, prompt |-> p, max_results |-> m, generate_all |-> a]

ChatRequests ==
    { Request("chat", FALSE, Empty, ChatLimit, FALSE) }
        \cup { Request("chat", TRUE, p, ChatLimit, FALSE) : p \in ChatPrompts }

OutfitRequests ==
    { Request("generate_outfit", FALSE, Empty, m, TRUE) : m \in 1..MaxCap }
        \cup { Request("generate_outfit", TRUE, p, m, TRUE) :
                 p \in OutfitPrompts, m \in 1..MaxCap }

MainRequests ==
    { Request("main", TRUE, BlueShirt, MainDefault, FALSE) }
        \cup { Request("main", TRUE, BlueShirt, m, a) :
                 m \in 1..MaxCap, a \in BOOLEAN }

Requests == ChatRequests \cup OutfitRequests \cup MainRequests

NoResponse == [kind |-> "none", code |-> 0, products |-> << >>,
               generated_images |-> << >>]

Error(code) == [kind |-> "error", code |-> code, products |-> << >>,
                generated_images |-> << >>]

Ok(ps, imgs) == [kind |-> "ok", code |-> 200, products |-> ps,
                 generated_images |-> imgs]

\* no helper is called on its own
NoCall ==
    [fn |-> "none", outcome |-> [raised |-> FALSE, results |-> << >>],
     limit |-> 0, url |-> Empty,
     env |-> Env(TRUE, TRUE, "exception", << >>),
     returned |-> FALSE, products |-> << >>,
     result |-> Result(FALSE, "none", FALSE, FALSE, 0)]

InitWith(ids, inputs) ==
    /\ req \in [ids -> inputs]
    /\ call = [r \in ids |-> NoCall]
    /\ pc = [r \in ids |-> req[r].entry]
    /\ answer = [r \in ids |-> << >>]
    /\ search_query = [r \in ids |-> MISSING]
    /\ products = [r \in ids |-> << >>]
    /\ fallback_used = [r \in ids |-> FALSE]
    /\ timestamp = [r \in ids |-> ""]
    /\ attempts = [r \in ids |-> << >>]
    /\ generated_images = [r \in ids |-> << >>]
    /\ response = [r \in ids |-> NoResponse]
    /\ calls = [r \in ids |-> << >>]
    /\ seen = [r \in ids |-> [refine |-> "none", search |-> "none", live |-> 0]]
    /\ clock = 0
    /\ written = {}

Init == InitWith({1}, Requests)

Finish(r, resp) ==
    /\ response' = [response EXCEPT ![r] = resp]
    /\ pc' = [pc EXCEPT ![r] = "done"]

Goto(r, where) ==
    /\ pc' = [pc EXCEPT ![r] = where]
    /\ UNCHANGED response

\* how a search call ended
Returned(outcome) == IF outcome.raised THEN "raised" ELSE "returned"

Call(r, what) == calls' = [calls EXCEPT ![r] = Append(@, what)]

-----------------------------------------------------------------------------
(* app.py: chat *)

\* lines 22-27
ChatValidate(r) ==
    /\ pc[r] = "chat"
    /\ IF ~req[r].given \/ req[r].prompt = Empty
       THEN Finish(r, Error(400))
       ELSE Goto(r, "chat_advise")
    /\ UNCHANGED << call, seen, req, answer, search_query, products, fallback_used,
                    timestamp, attempts, generated_images, calls, clock, written >>

\* lines 31-45, and 77-79 when the call raises
ChatAdvise(r) ==
    /\ pc[r] = "chat_advise"
    /\ Call(r, "advise")
    /\ \E raised \in BOOLEAN :
          IF raised
          THEN Finish(r, Error(500)) /\ UNCHANGED answer
          ELSE Goto(r, "chat_refine")
               /\ answer' = [answer EXCEPT ![r] = << "advice" >>]
    /\ UNCHANGED << call, seen, req, search_query, products, fallback_used, timestamp,
                    attempts, generated_images, clock, written >>

\* lines 47-53, and 77-79 when the call raises
ChatRefine(r, outcomes) ==
    /\ pc[r] = "chat_refine"
    /\ Call(r, "refine")
    /\ \E o \in outcomes :
          /\ seen' = [seen EXCEPT ![r].refine = o.kind]
          /\ IF o.kind = "exception"
             THEN Finish(r, Error(500)) /\ UNCHANGED search_query
             ELSE Goto(r, "chat_search")
                  /\ search_query' = [search_query EXCEPT ![r] = o.text]
    /\ UNCHANGED << call, req, answer, products, fallback_used, timestamp, attempts,
                    generated_images, clock, written >>

\* line 56
ChatSearch(r, outcomes) ==
    /\ pc[r] = "chat_search"
    /\ Call(r, "search")
    /\ \E o \in outcomes :
          LET found == fetch_google_shopping_products(o, ChatLimit)
          IN  /\ products' = [products EXCEPT ![r] = found]
              /\ seen' = [seen EXCEPT ![r].search = Returned(o),
                                      ![r].live = Len(found)]
    /\ Goto(r, "chat_fallback")
    /\ UNCHANGED << call, req, answer, search_query, fallback_used, timestamp,
                    attempts, generated_images, clock, written >>

\* ChatFallback with <= for < in the threshold test (line 59)
ChatFallback_OffByOne(r) ==
    /\ pc[r] = "chat_fallback"
    /\ IF Len(products[r]) <= FallbackThreshold
       THEN LET fallback_products ==
                    fetch_specific_fallback_products(req[r].prompt, ChatLimit)
            IN  /\ Call(r, "fallback")
                /\ fallback_used' = [fallback_used EXCEPT ![r] = TRUE]
                /\ products' = [products EXCEPT ![r] = @ \o fallback_products]
                /\ answer' = [answer EXCEPT
                                ![r] = IF fallback_products # << >>
                                       THEN Append(@, "fallback matches")
                                       ELSE @]
       ELSE UNCHANGED << calls, fallback_used, products, answer >>
    /\ Goto(r, "chat_respond")
    /\ UNCHANGED << call, seen, req, search_query, timestamp, attempts, generated_images,
                    clock, written >>

\* lines 58-66
ChatFallback(r) ==
    /\ pc[r] = "chat_fallback"
    /\ IF Len(products[r]) < FallbackThreshold
       THEN LET fallback_products ==
                    fetch_specific_fallback_products(req[r].prompt, ChatLimit)
            IN  /\ Call(r, "fallback")
                /\ fallback_used' = [fallback_used EXCEPT ![r] = TRUE]
                /\ products' = [products EXCEPT ![r] = @ \o fallback_products]
                /\ answer' = [answer EXCEPT
                                ![r] = IF fallback_products # << >>
                                       THEN Append(@, "fallback matches")
                                       ELSE @]
       ELSE UNCHANGED << calls, fallback_used, products, answer >>
    /\ Goto(r, "chat_respond")
    /\ UNCHANGED << call, seen, req, search_query, timestamp, attempts, generated_images,
                    clock, written >>

\* lines 68-75
ChatRespond(r) ==
    /\ pc[r] = "chat_respond"
    /\ Call(r, "respond")
    /\ answer' = [answer EXCEPT
                    ![r] = IF products[r] # << >>
                           THEN Append(@, "top matches")
                           ELSE @]
    /\ Finish(r, Ok(products[r], << >>))
    /\ UNCHANGED << call, seen, req, search_query, products, fallback_used, timestamp,
                    attempts, generated_images, clock, written >>

-----------------------------------------------------------------------------
(* backend/api.py: generate_outfit *)

\* GenerateOutfitRequest: prompt is a required str field
GenerateOutfitRequest(r) ==
    /\ pc[r] = "generate_outfit"
    /\ IF ~req[r].given
       THEN Finish(r, Error(422))
       ELSE Goto(r, "outfit_parse")
    /\ UNCHANGED << call, seen, req, answer, search_query, products, fallback_used,
                    timestamp, attempts, generated_images, calls, clock, written >>

\* lines 98-100
OutfitParse(r, outcomes) ==
    /\ pc[r] = "outfit_parse"
    /\ Call(r, "refine")
    /\ \E o \in outcomes :
          LET parsed_info == parse_natural_language_query(req[r].prompt, o)
          IN  /\ search_query' = [search_query EXCEPT
                     ![r] = Get(parsed_info.search_query, req[r].prompt)]
              /\ seen' = [seen EXCEPT ![r].refine = o.kind]
    /\ Goto(r, "outfit_search")
    /\ UNCHANGED << call, req, answer, products, fallback_used, timestamp, attempts,
                    generated_images, clock, written >>

\* OutfitSearch with the test for an empty product list (lines 107-111) left out
OutfitSearch_NoEmptyCheck(r, outcomes) ==
    /\ pc[r] = "outfit_search"
    /\ Call(r, "search")
    /\ \E o \in outcomes :
          LET found == search_clothing(o, req[r].max_results)
          IN  /\ products' = [products EXCEPT ![r] = found]
              /\ seen' = [seen EXCEPT ![r].search = Returned(o),
                                      ![r].live = Len(found)]
              /\ Goto(r, "outfit_loop")
              /\ timestamp' = [timestamp EXCEPT ![r] = Strftime(clock)]
    /\ UNCHANGED << call, req, answer, search_query, fallback_used, attempts,
                    generated_images, clock, written >>

\* lines 104-121
OutfitSearch(r, outcomes) ==
    /\ pc[r] = "outfit_search"
    /\ Call(r, "search")
    /\ \E o \in outcomes :
          LET found == search_clothing(o, req[r].max_results)
          IN  /\ products' = [products EXCEPT ![r] = found]
              /\ seen' = [seen EXCEPT ![r].search = Returned(o),
                                      ![r].live = Len(found)]
              /\ IF found = << >>
                 THEN Finish(r, Error(404)) /\ UNCHANGED timestamp
                 ELSE /\ Goto(r, "outfit_loop")
                      /\ timestamp' = [timestamp EXCEPT ![r] = Strftime(clock)]
    /\ UNCHANGED << call, req, answer, search_query, fallback_used, attempts,
                    generated_images, clock, written >>

\* line 126
OutfitFilename(ts, i, product) ==
    << "outfit_", ts, "_", IntStr(i), "_" >> \o Slug(product.brand) \o << ".png" >>

\* Synthesize with the test of result['success'] (line 136) left out
Synthesize_AppendAlways(r, i, name, env) ==
    LET result == generate_outfit_visualization(products[r][i].image_url, env)
    IN  /\ attempts' = [attempts EXCEPT
              ![r] = Append(@, [index   |-> i,
                                name    |-> name,
                                status  |-> IF result.success THEN "succeeded"
                                                              ELSE "failed",
                                wrote   |-> result.wrote])]
        /\ generated_images' = [generated_images EXCEPT ![r] = Append(@, name)]
        /\ written' = IF result.wrote
                      THEN written \cup { [name |-> name, by |-> << r, i >>] }
                      ELSE written

\* one pass of a synthesis loop: the call, the bookkeeping after it
Synthesize(r, i, name, env) ==
    LET result == generate_outfit_visualization(products[r][i].image_url, env)
    IN  /\ attempts' = [attempts EXCEPT
              ![r] = Append(@, [index   |-> i,
                                name    |-> name,
                                status  |-> IF result.success THEN "succeeded"
                                                              ELSE "failed",
                                wrote   |-> result.wrote])]
        /\ generated_images' = [generated_images EXCEPT
              ![r] = IF result.success THEN Append(@, name) ELSE @]
        /\ written' = IF result.wrote
                      THEN written \cup { [name |-> name, by |-> << r, i >>] }
                      ELSE written

\* lines 123-141, one iteration
OutfitItem(r, envs) ==
    /\ pc[r] = "outfit_loop"
    /\ Len(attempts[r]) < Len(products[r])
    /\ Call(r, "synthesis")
    /\ LET i == Len(attempts[r]) + 1
       IN  \E env \in envs :
              Synthesize(r, i,
                  OutfitFilename(timestamp[r], i, products[r][i]), env)
    /\ UNCHANGED << call, seen, req, pc, answer, search_query, products, fallback_used,
                    timestamp, response, clock >>

\* OutfitRespond with a loop that breaks at the first failed item
OutfitRespond_StopOnFailure(r) ==
    /\ pc[r] = "outfit_loop"
    /\ \/ Len(attempts[r]) = Len(products[r])
       \/ /\ attempts[r] # << >>
          /\ attempts[r][Len(attempts[r])].status = "failed"
    /\ Call(r, "respond")
    /\ IF generated_images[r] = << >>
       THEN Finish(r, Error(500))
       ELSE Finish(r, Ok(products[r], generated_images[r]))
    /\ UNCHANGED << call, seen, req, answer, search_query, products, fallback_used,
                    timestamp, attempts, generated_images, clock, written >>

\* OutfitRespond with the response built as soon as one image exists
OutfitRespond_Early(r) ==
    /\ pc[r] = "outfit_loop"
    /\ \/ Len(attempts[r]) = Len(products[r])
       \/ generated_images[r] # << >>
    /\ Call(r, "respond")
    /\ IF generated_images[r] = << >>
       THEN Finish(r, Error(500))
       ELSE Finish(r, Ok(products[r], generated_images[r]))
    /\ UNCHANGED << call, seen, req, answer, search_query, products, fallback_used,
                    timestamp, attempts, generated_images, clock, written >>

\* lines 143-161
OutfitRespond(r) ==
    /\ pc[r] = "outfit_loop"
    /\ Len(attempts[r]) = Len(products[r])
    /\ Call(r, "respond")
    /\ IF generated_images[r] = << >>
       THEN Finish(r, Error(500))
       ELSE Finish(r, Ok(products[r], generated_images[r]))
    /\ UNCHANGED << call, seen, req, answer, search_query, products, fallback_used,
                    timestamp, attempts, generated_images, clock, written >>

-----------------------------------------------------------------------------
(* backend/styloAI.py: main, from the search on *)

\* lines 235-239
MainSearch(r, outcomes) ==
    /\ pc[r] = "main"
    /\ Call(r, "search")
    /\ search_query' = [search_query EXCEPT ![r] = req[r].prompt]
    /\ \E o \in outcomes :
          LET found == search_clothing(o, req[r].max_results)
          IN  /\ products' = [products EXCEPT ![r] = found]
              /\ seen' = [seen EXCEPT ![r].search = Returned(o),
                                      ![r].live = Len(found)]
              /\ IF found = << >>
                 THEN Finish(r, Error(1))
                 ELSE Goto(r, "main_loop")
    /\ UNCHANGED << call, req, answer, fallback_used, timestamp, attempts,
                    generated_images, clock, written >>

\* num_to_generate without the cap of 3: every product is generated
num_to_generate_NoCap(r) == Len(products[r])

\* line 264
num_to_generate(r) ==
    IF req[r].generate_all
    THEN Len(products[r])
    ELSE IF GenerateDefault < Len(products[r]) THEN GenerateDefault
                                               ELSE Len(products[r])

\* line 272
MainFilename(query, i, product) ==
    << "generated_outfit_" >> \o Slug(query) \o << "_", IntStr(i), "_" >>
        \o Slug(product.brand) \o << ".png" >>

\* lines 268-285, one iteration
MainItem(r, envs) ==
    /\ pc[r] = "main_loop"
    /\ Len(attempts[r]) < num_to_generate(r)
    /\ Call(r, "synthesis")
    /\ LET i == Len(attempts[r]) + 1
       IN  \E env \in envs :
              Synthesize(r, i,
                  MainFilename(search_query[r], i, products[r][i]), env)
    /\ UNCHANGED << call, seen, req, pc, answer, search_query, products, fallback_used,
                    timestamp, response, clock >>

\* lines 287-297
MainSummary(r) ==
    /\ pc[r] = "main_loop"
    /\ Len(attempts[r]) = num_to_generate(r)
    /\ Call(r, "respond")
    /\ Finish(r, Ok(products[r], generated_images[r]))
    /\ UNCHANGED << call, seen, req, answer, search_query, products, fallback_used,
                    timestamp, attempts, generated_images, clock, written >>

-----------------------------------------------------------------------------
(* The clock, and the specification of one request *)

Tick ==
    /\ clock < MaxClock
    /\ clock' = clock + 1
    /\ UNCHANGED << call, req, pc, answer, search_query, products, fallback_used,
                    timestamp, attempts, generated_images, response, calls,
                    seen, written >>

Next ==
    \E r \in DOMAIN req :
          \/ ChatValidate(r)
          \/ ChatAdvise(r)
          \/ ChatRefine(r, RefineOutcomes)
          \/ ChatSearch(r, SearchOutcomes)
          \/ ChatFallback(r)
          \/ ChatRespond(r)
          \/ GenerateOutfitRequest(r)
          \/ OutfitParse(r, RefineOutcomes)
          \/ OutfitSearch(r, SearchOutcomes)
          \/ OutfitItem(r, SynthEnvs)
          \/ OutfitRespond(r)
          \/ MainSearch(r, SearchOutcomes)
          \/ MainItem(r, SynthEnvs)
          \/ MainSummary(r)

Spec == Init /\ [][Next]_vars

-----------------------------------------------------------------------------
(* Two generate_outfit requests served at the same time *)

PairRequests ==
    { Request("generate_outfit", TRUE, BlueShirt, m, TRUE) : m \in 1..MaxCap }

PairSearchOutcomes ==
    { [raised |-> FALSE, results |-> rs] :
        rs \in { << >>, << ZaraListing >>, << HMListing >>, << H_MListing >>,
                 << ZaraListing, ZaraListing >>, << HMListing, ZaraListing >> } }

PairRefineOutcomes == { [kind |-> "empty", text |-> Empty] }

PairEnvs ==
    { Env(TRUE, TRUE, "parts", << ImagePart >>),
      Env(TRUE, TRUE, "exception", << >>) }

InitPair == InitWith({1, 2}, PairRequests)

NextPair ==
    \/ Tick
    \/ \E r \in DOMAIN req :
          \/ GenerateOutfitRequest(r)
          \/ OutfitParse(r, PairRefineOutcomes)
          \/ OutfitSearch(r, PairSearchOutcomes)
          \/ OutfitItem(r, PairEnvs)
          \/ OutfitRespond(r)

SpecPair == InitPair /\ [][NextPair]_vars

-----------------------------------------------------------------------------
(* The helpers called on their own, on every input of a bounded set *)

SearchCall(fn, o, l) ==
    [NoCall EXCEPT !.fn = fn, !.outcome = o, !.limit = l]

VisualizationCall(u, e) ==
    [NoCall EXCEPT !.fn = "generate_outfit_visualization", !.url = u, !.env = e]

HelperCalls ==
    { SearchCall(fn, o, l) :
        fn \in {"fetch_google_shopping_products", "search_clothing"},
        o \in SearchOutcomes, l \in 1..ChatLimit }
      \cup { VisualizationCall(u, e) :
               u \in {Url("z.jpg"), NA, Empty}, e \in SynthEnvs }

InitHelpers ==
    /\ call \in [{1} -> HelperCalls]
    /\ req = [r \in {1} |-> Request("call", TRUE, BlueShirt, call[r].limit, FALSE)]
    /\ pc = [r \in {1} |-> "call"]
    /\ answer = [r \in {1} |-> << >>]
    /\ search_query = [r \in {1} |-> BlueShirt]
    /\ products = [r \in {1} |-> << >>]
    /\ fallback_used = [r \in {1} |-> FALSE]
    /\ timestamp = [r \in {1} |-> ""]
    /\ attempts = [r \in {1} |-> << >>]
    /\ generated_images = [r \in {1} |-> << >>]
    /\ response = [r \in {1} |-> NoResponse]
    /\ calls = [r \in {1} |-> << >>]
    /\ seen = [r \in {1} |-> [refine |-> "none", search |-> "none", live |-> 0]]
    /\ clock = 0
    /\ written = {}

Return(r, c) ==
    /\ call' = [call EXCEPT ![r] = [c EXCEPT !.returned = TRUE]]
    /\ pc' = [pc EXCEPT ![r] = "done"]
    /\ UNCHANGED << req, answer, search_query, products, fallback_used,
                    timestamp, attempts, generated_images, response, calls,
                    seen, clock, written >>

\* app.py lines 81-107
CallFetchShopping(r) ==
    /\ pc[r] = "call"
    /\ call[r].fn = "fetch_google_shopping_products"
    /\ Return(r, [call[r] EXCEPT !.products =
                    fetch_google_shopping_products(call[r].outcome, call[r].limit)])

\* styloAI.py lines 24-67
CallSearchClothing(r) ==
    /\ pc[r] = "call"
    /\ call[r].fn = "search_clothing"
    /\ Return(r, [call[r] EXCEPT !.products =
                    search_clothing(call[r].outcome, call[r].limit)])

\* styloAI.py lines 90-177
CallVisualization(r) ==
    /\ pc[r] = "call"
    /\ call[r].fn = "generate_outfit_visualization"
    /\ Return(r, [call[r] EXCEPT !.result =
                    generate_outfit_visualization(call[r].url, call[r].env)])

NextHelpers ==
    \E r \in DOMAIN req :
        \/ CallFetchShopping(r)
        \/ CallSearchClothing(r)
        \/ CallVisualization(r)

SpecHelpers == InitHelpers /\ [][NextHelpers]_vars

-----------------------------------------------------------------------------
(* The synthesis loops on product lists of up to five products *)

CapRequests ==
    { Request("generate_outfit", TRUE, BlueShirt, m, TRUE) :
        m \in {MainDefault - 1, MainDefault} }
      \cup { Request("main", TRUE, BlueShirt, MainDefault, a) : a \in BOOLEAN }
      \cup { Request("main", TRUE, BlueShirt, m, FALSE) : m \in 1..MaxCap }

CapSearchOutcomes ==
    { [raised |-> TRUE, results |-> << >>] }
      \cup { [raised |-> FALSE, results |-> pre \o Repeat(ZaraListing, k)] :
               pre \in SeqsUpTo({HMListing}, 1), k \in 0..MaxGood }

CapEnvs ==
    { Env(TRUE, TRUE, "parts", << ImagePart >>),
      Env(TRUE, TRUE, "parts", << TextPart >>) }

InitCap == InitWith({1}, CapRequests)

NextCap ==
    \E r \in DOMAIN req :
        \/ GenerateOutfitRequest(r)
        \/ OutfitParse(r, PairRefineOutcomes)
        \/ OutfitSearch(r, CapSearchOutcomes)
        \/ OutfitItem(r, CapEnvs)
        \/ OutfitRespond(r)
        \/ MainSearch(r, CapSearchOutcomes)
        \/ MainItem(r, CapEnvs)
        \/ MainSummary(r)

SpecCap == InitCap /\ [][NextCap]_vars

-----------------------------------------------------------------------------
(* Vocabulary of the properties *)

Ids == DOMAIN req

Done(r) == pc[r] = "done"

SucceededItems(r) == SelectSeq(attempts[r], LAMBDA a : a.status = "succeeded")

FailedItems(r) == SelectSeq(attempts[r], LAMBDA a : a.status = "failed")

NamesOf(items) == [i \in 1..Len(items) |-> items[i].name]

Count(s, x) == Cardinality({ i \in 1..Len(s) : s[i] = x })

\* the stages of the pipeline in calls[r]; the advisory completion is not one
Stages(r) == SelectSeq(calls[r], LAMBDA c : c # "advise")

StageRank(c) ==
    CASE c = "refine"    -> 1
      [] c = "search"    -> 2
      [] c = "fallback"  -> 3
      [] c = "synthesis" -> 4
      [] c = "respond"   -> 5

ExternalCalls(r) ==
    { i \in 1..Len(calls[r]) :
        calls[r][i] \in {"advise", "refine", "search", "synthesis"} }

NoFallbackRule(r) ==
    fetch_specific_fallback_products(req[r].prompt, ChatLimit) = << >>

\* the number of items request r has to attempt; chat has no synthesis loop
ToAttempt(r) ==
    CASE req[r].entry = "main"            -> num_to_generate(r)
      [] req[r].entry = "generate_outfit" -> Len(products[r])
      [] req[r].entry = "chat"            -> 0

\* a product that carries an image locator and a product link
Located(p, entry) ==
    /\ p.image_url \notin {Empty, NA}
    /\ IF entry = "chat" THEN p.link \notin {Empty, NA}
                         ELSE p.product_link \notin {Empty, NA}

-----------------------------------------------------------------------------
\* C1: when generate_outfit found at least one product, the response is a
\* success exactly if some item's synthesis succeeded; a success lists exactly
\* the artifact names of the succeeded items, in order; with no succeeded item
\* the outcome is an error that carries no generated images.
C1_SuccessIffSomeItemSucceeded ==
    \A r \in Ids :
        (req[r].entry = "generate_outfit" /\ Done(r) /\ products[r] # << >>) =>
            /\ (response[r].kind = "ok") <=> (SucceededItems(r) # << >>)
            /\ response[r].kind = "ok" =>
                  response[r].generated_images = NamesOf(SucceededItems(r))
            /\ SucceededItems(r) = << >> =>
                  /\ response[r].kind = "error"
                  /\ response[r].generated_images = << >>

\* C1 witness: a partial success, one item failed and another succeeded
C1_PartialSuccess ==
    \E r \in Ids :
        /\ req[r].entry = "generate_outfit" /\ Done(r)
        /\ response[r].kind = "ok"
        /\ FailedItems(r) # << >>
        /\ Len(response[r].generated_images) < Len(products[r])

\* C2: failure isolation.  When a synthesis loop has ended, every product it
\* had to attempt was attempted once, in order, whatever failed before it, and
\* every attempt has exactly one status among succeeded and failed.
C2_FailureIsolation ==
    \A r \in Ids :
        (Done(r) /\ products[r] # << >>
                 /\ req[r].entry \in {"generate_outfit", "main"}) =>
            /\ Len(attempts[r]) = ToAttempt(r)
            /\ \A i \in 1..Len(attempts[r]) :
                  /\ attempts[r][i].index = i
                  /\ attempts[r][i].status \in {"succeeded", "failed"}

\* C2 witness: the first item failed and a later item was still attempted
C2_AttemptAfterFailure ==
    \E r \in Ids :
        /\ Done(r)
        /\ Len(attempts[r]) >= 2
        /\ attempts[r][1].status = "failed"
        /\ attempts[r][2].status = "succeeded"

C4_ProductsWithinCap ==
    \A r \in Ids :
        response[r].kind = "ok" =>
            Len(response[r].products) <= req[r].max_results

\* C5: every product the search stage returns has an image locator and a
\* product link; a listing that lacks either is never returned.
C5_FilterInvariant ==
    \A r \in Ids :
        seen[r].search # "none" =>
            \A i \in 1..Len(products[r]) : Located(products[r][i], req[r].entry)

C7_RefinedQueryNonEmpty ==
    \A r \in Ids :
        (req[r].entry \in {"chat", "generate_outfit"} /\ req[r].given
           /\ req[r].prompt # Empty /\ seen[r].refine # "none") =>
            /\ search_query[r] \notin {Empty, MISSING}
            /\ seen[r].refine \in {"empty", "exception"} =>
                  search_query[r] = req[r].prompt
            /\ seen[r].search = "none" => response[r].kind # "error"

\* C8: any two synthesis items, of one request or of two requests served at
\* the same time, are assigned different artifact names.
C8_ArtifactNamesDistinct ==
    \A r1 \in Ids, r2 \in Ids :
        \A i1 \in 1..Len(attempts[r1]), i2 \in 1..Len(attempts[r2]) :
            << r1, i1 >> # << r2, i2 >> =>
                attempts[r1][i1].name # attempts[r2][i2].name

\* C9: a chat or generate_outfit request whose prompt is missing or empty
\* calls no external service and ends in a validation error.
C9_EmptyPromptRejected ==
    \A r \in Ids :
        (req[r].entry \in {"chat", "generate_outfit"}
           /\ (~req[r].given \/ req[r].prompt = Empty)) =>
            /\ ExternalCalls(r) = {}
            /\ Done(r) => response[r].kind = "error" /\ response[r].code \in {400, 422}

\* C10: the stages of a request occur in the order refine, search, fallback,
\* synthesis, response; only synthesis is started more than once, one call
\* per finished item; the response is built after the last synthesis attempt;
\* and the product list no longer changes once synthesis has begun.
C10_StageOrder ==
    /\ [](\A r \in Ids :
            LET st == Stages(r)
            IN  /\ \A i \in 1..Len(st), j \in 1..Len(st) :
                      i < j => /\ StageRank(st[i]) <= StageRank(st[j])
                               /\ st[i] = st[j] => st[i] = "synthesis"
                /\ Count(st, "synthesis") = Len(attempts[r])
                /\ Count(st, "respond") = 1 =>
                      /\ Done(r)
                      /\ Len(attempts[r]) = ToAttempt(r))
    /\ [][\A r \in Ids :
            Count(calls[r], "synthesis") > 0 => products'[r] = products[r]]_vars

\* C10 witness: a generate_outfit request that went through refine, search,
\* two synthesis calls and the response
C10_FullPipelineRun ==
    \E r \in Ids :
        /\ Done(r)
        /\ Stages(r) = << "refine", "search", "synthesis", "synthesis", "respond" >>

\* the listings of a raw result that carry a thumbnail and a link, in order
EligibleListings(results) == SelectSeq(results, Eligible)

\* the product a helper makes of a listing
AsProduct(fn, listing) ==
    IF fn = "search_clothing" THEN OutfitProduct(listing)
                              ELSE ChatProduct(listing)

\* C11: the ProductSearch result is the first `cap` eligible listings of the
\* raw result, in the provider's order: ineligible listings are discarded
\* before the truncation.
C11_FilterThenTruncate ==
    \A r \in Ids :
        (call[r].returned /\ ~call[r].outcome.raised
           /\ call[r].fn \in {"fetch_google_shopping_products", "search_clothing"}) =>
            LET kept == Take(EligibleListings(call[r].outcome.results),
                             call[r].limit)
            IN  call[r].products =
                    [i \in 1..Len(kept) |-> AsProduct(call[r].fn, kept[i])]

\* the parts of a response that satisfy p
PartsWhere(env, p(_)) == { i \in 1..Len(env.parts) : p(env.parts[i]) }

CarriesImage(part) == part.inline = "image"

\* the code reads the inline data of a part only when the part has no text
ReadAsImage(part) == ~part.text /\ part.inline = "image"

BreaksScan(part) == ~part.text /\ part.inline \in {"corrupt", "unwritable"}

CarriesText(part) == part.text

\* a call whose reference and garment images load and whose service call
\* returns (a response that is absent, without candidates, or a list of parts)
ServiceAnswered(c) ==
    /\ c.fn = "generate_outfit_visualization"
    /\ c.returned
    /\ c.env.ref
    /\ GarmentLoaded(c.url, c.env)
    /\ c.env.service # "exception"

\* C12 as claimed: the item succeeds and the image is persisted exactly if
\* some part of the response carries inline image bytes; otherwise the item
\* fails with a diagnostic that includes all the text the service returned.
\* Stated for the responses whose inline data all decode and save.
C12_SucceededIffSomePartHasImage ==
    \A r \in Ids :
        (ServiceAnswered(call[r])
           /\ \A i \in 1..Len(call[r].env.parts) :
                 call[r].env.parts[i].inline \in {"none", "image"}) =>
            LET env == call[r].env
                res == call[r].result
            IN  /\ (res.success /\ res.wrote) <=> PartsWhere(env, CarriesImage) # {}
                /\ PartsWhere(env, CarriesImage) = {} =>
                      /\ ~res.success
                      /\ res.has_text_response
                      /\ res.texts = Cardinality(PartsWhere(env, CarriesText))

\* C12 as amended: the item succeeds exactly if some part without text
\* carries inline image bytes and no part without text carries bytes that
\* fail to decode or to save; a success has persisted the image; a failure
\* without such an error carries all the text returned, a failure by such an
\* error carries the error message alone.
C12_SucceededIffTextlessPartHasImage ==
    \A r \in Ids :
        ServiceAnswered(call[r]) =>
            LET env == call[r].env
                res == call[r].result
                broken == PartsWhere(env, BreaksScan) # {}
            IN  /\ res.success <=> (PartsWhere(env, ReadAsImage) # {} /\ ~broken)
                /\ res.success => res.wrote
                /\ (~res.success /\ ~broken) =>
                      /\ res.has_text_response
                      /\ res.texts = Cardinality(PartsWhere(env, CarriesText))
                      /\ res.message \in {"No response", "No image data returned"}
                /\ broken => (res.message = "Error" /\ ~res.has_text_response)

\* C12 witness: a part that carries text and image bytes; the item has failed
C12_CaptionedImageFails ==
    \E r \in Ids :
        /\ ServiceAnswered(call[r])
        /\ call[r].env.parts = << CaptionedImage >>
        /\ ~call[r].result.success
        /\ call[r].result.texts = 1

Min(a, b) == IF a < b THEN a ELSE b

HasLoop(r) == req[r].entry \in {"generate_outfit", "main"}

\* the artifact name the loop of request r gives to its i-th product
ItemName(r, i) ==
    IF req[r].entry = "main"
    THEN MainFilename(search_query[r], i, products[r][i])
    ELSE OutfitFilename(timestamp[r], i, products[r][i])

\* the attempts of request r are its first n products, once each, in order
AttemptsAreFirst(r, n) ==
    /\ Len(attempts[r]) = n
    /\ \A i \in 1..n :
          attempts[r][i].index = i /\ attempts[r][i].name = ItemName(r, i)

\* with five products and a cap of three that all succeed: five products,
\* exactly three generated images
ScenarioA(r) ==
    (Len(products[r]) = 5 /\ FailedItems(r) = << >>) =>
        /\ Len(response[r].products) = 5
        /\ Len(response[r].generated_images) = 3

\* C13 as claimed: a request that does not lift the generation cap attempts
\* exactly the first min(3, number of products) products, once each and in
\* order, and no other; hence generated_images is no longer than the number
\* of attempts, and five products that all succeed give three images.
C13_AttemptsFirstThree ==
    \A r \in Ids :
        (HasLoop(r) /\ products[r] # << >>
           /\ (req[r].entry = "main" => ~req[r].generate_all)) =>
            /\ Len(attempts[r]) <= Min(GenerateDefault, Len(products[r]))
            /\ Len(generated_images[r]) <= Len(attempts[r])
            /\ Done(r) =>
                  /\ AttemptsAreFirst(r, Min(GenerateDefault, Len(products[r])))
                  /\ ScenarioA(r)

\* C13 as amended: main attempts exactly the first min(3, number of products)
\* products, or all of them with --generate-all; generate_outfit has no
\* generation cap and attempts every product of its list; each once, in
\* order; attempts never exceed the products, nor these max_results;
\* generated_images is no longer than the number of attempts; five products
\* that all succeed give three images in main without --generate-all.
C13_AttemptsUpToCap ==
    \A r \in Ids :
        (HasLoop(r) /\ products[r] # << >>) =>
            LET n == IF req[r].entry = "main" /\ ~req[r].generate_all
                     THEN Min(GenerateDefault, Len(products[r]))
                     ELSE Len(products[r])
            IN  /\ Len(attempts[r]) <= n
                /\ n <= Len(products[r])
                /\ Len(products[r]) <= req[r].max_results
                /\ Len(generated_images[r]) <= Len(attempts[r])
                /\ Done(r) =>
                      /\ AttemptsAreFirst(r, n)
                      /\ (req[r].entry = "main" /\ ~req[r].generate_all)
                            => ScenarioA(r)

\* C13 witness: main found five products, generated the first three, all
\* three succeeded
C13_FiveProductsThreeImages ==
    \E r \in Ids :
        /\ req[r].entry = "main" /\ ~req[r].generate_all /\ Done(r)
        /\ Len(response[r].products) = 5
        /\ Len(attempts[r]) = 3
        /\ Len(response[r].generated_images) = 3

\* the artifact names request r reports
Reported(r) == { generated_images[r][i] : i \in 1..Len(generated_images[r]) }

\* C14: the file at output_path is written exactly if the call returns
\* success; a failed item leaves no artifact, so every file a request has
\* written is named in its generated_images.
C14_ArtifactIffSuccess ==
    \A r \in Ids :
        /\ \A i \in 1..Len(attempts[r]) :
              attempts[r][i].wrote <=> attempts[r][i].status = "succeeded"
        /\ \A w \in written : w.by[1] = r => w.name \in Reported(r)

=============================================================================
